---- MODULE Spec2Model ----
(***************************************************************************)
(* Company-record aggregation and merge-upsert core of the crawler's       *)
(* search-ingestion layer: CompanyRecord (searchdb/data_models.py), the    *)
(* aggregator aggregate_json_records_by_domain, and the upsert protocol of *)
(* ElasticsearchImporter (searchdb/elasticsearch_importer.py).             *)
(*                                                                         *)
(* A Python str is a sequence of one-character strings, a Python list a    *)
(* sequence, a dict a function whose DOMAIN is the set of its keys.        *)
(***************************************************************************)
EXTENDS Integers, Sequences, FiniteSets, TLC

----------------------------------------------------------------------------
(* Bounds of the model                                                     *)

\* longest list handed to a constructor or to an add_* mutator
MaxItems == 2
\* a Record is mutated only while it holds fewer entries than this
MaxEntries == 4
\* longest sequence of raw JSON records handed to the aggregator
MaxRaw == 3
\* longest batch of candidate Records of one import
MaxBatch == 2
\* number of imports run one after the other
MaxImports == 2
\* number of importer processes
NumProcs == 2

----------------------------------------------------------------------------
(* Python values                                                           *)

\* Python None: a one-element tuple whose element is no character
None == <<"None">>

\* str literals used as inputs
S_empty == <<>>
S_sp == <<" ">>
S_x == <<"x">>
S_y == <<"y">>
S_spx == <<" ", "x">>
S_xsp == <<"x", " ">>
S_d == <<"d">>
S_e == <<"e">>

\* the strings and None that may appear as one entry of an input list
RawItems == {None, S_empty, S_spx, S_y}

\* the domain values of well-formed inputs
Domains == {S_d, S_e}

\* truthiness of a str, a list or None (bool(v))
Truthy(v) == v # None /\ Len(v) > 0

\* the elements of a list, as a set
Range(s) == {s[k] : k \in 1..Len(s)}

\* all lists of at most n entries drawn from S
SeqsUpTo(S, n) == UNION {[1..k -> S] : k \in 0..n}

\* str.strip(): drop leading and trailing whitespace
RECURSIVE lstrip(_)
lstrip(s) == IF s = <<>> THEN <<>>
             ELSE IF Head(s) = " " THEN lstrip(Tail(s)) ELSE s

RECURSIVE rstrip(_)
rstrip(s) == IF s = <<>> THEN <<>>
             ELSE IF s[Len(s)] = " " THEN rstrip(SubSeq(s, 1, Len(s) - 1)) ELSE s

strip(s) == rstrip(lstrip(s))

\* str.split(sep) for a one-character sep: always at least one segment
RECURSIVE split(_, _)
split(s, sep) ==
    IF \A k \in 1..Len(s) : s[k] # sep THEN <<s>>
    ELSE LET p == CHOOSE k \in 1..Len(s) :
                      s[k] = sep /\ \A j \in 1..(k - 1) : s[j] # sep
         IN <<SubSeq(s, 1, p - 1)>> \o split(SubSeq(s, p + 1, Len(s)), sep)

----------------------------------------------------------------------------
(* CompanyRecord                                                           *)

FieldNames == {"company_names", "phones", "social_media", "addresses",
               "page_types", "urls"}

\* _make_unique_list without the test against seen
RECURSIVE unique_loop_keeps_duplicates(_, _)
unique_loop_keeps_duplicates(items, acc) ==
    IF items = <<>> THEN acc
    ELSE LET item == Head(items)
             cleaned_item == strip(item)
         IN IF item # None /\ cleaned_item # <<>>
            THEN unique_loop_keeps_duplicates(Tail(items), Append(acc, cleaned_item))
            ELSE unique_loop_keeps_duplicates(Tail(items), acc)

\* the loop of _make_unique_list over items[k..], unique_items so far in acc
\* (seen holds exactly the entries of unique_items)
RECURSIVE unique_loop(_, _)
unique_loop(items, acc) ==
    IF items = <<>> THEN acc
    ELSE LET item == Head(items)
             cleaned_item == strip(item)
         IN IF item # None /\ cleaned_item # <<>> /\ cleaned_item \notin Range(acc)
            THEN unique_loop(Tail(items), Append(acc, cleaned_item))
            ELSE unique_loop(Tail(items), acc)

\* CompanyRecord._make_unique_list
make_unique_list(items) ==
    IF items = <<>> THEN <<>> ELSE unique_loop(items, <<>>)

\* CompanyRecord(domain, company_names, ..., urls) followed by __post_init__
CompanyRecord(domain, company_names, phones, social_media, addresses, page_types, urls) ==
    [domain |-> domain,
     company_names |-> make_unique_list(company_names),
     phones |-> make_unique_list(phones),
     social_media |-> make_unique_list(social_media),
     addresses |-> make_unique_list(addresses),
     page_types |-> make_unique_list(page_types),
     urls |-> make_unique_list(urls)]

\* CompanyRecord(domain=domain): every list defaults to []
NewRecord(domain) == CompanyRecord(domain, <<>>, <<>>, <<>>, <<>>, <<>>, <<>>)

add_company_names(self, names) ==
    IF names # <<>>
    THEN [self EXCEPT !.company_names = make_unique_list(self.company_names \o names)]
    ELSE self

add_company_names_from_pipe_separated(self, pipe_separated) ==
    IF Truthy(pipe_separated)
    THEN LET parts == split(pipe_separated, "|")
             names == [k \in 1..Len(parts) |-> strip(parts[k])]
         IN add_company_names(self, names)
    ELSE self

add_phones(self, phones) ==
    IF phones # <<>>
    THEN [self EXCEPT !.phones = make_unique_list(self.phones \o phones)]
    ELSE self

add_social_media(self, links) ==
    IF links # <<>>
    THEN [self EXCEPT !.social_media = make_unique_list(self.social_media \o links)]
    ELSE self

add_addresses(self, addresses) ==
    IF addresses # <<>>
    THEN [self EXCEPT !.addresses = make_unique_list(self.addresses \o addresses)]
    ELSE self

add_page_types(self, page_types) ==
    IF page_types # <<>>
    THEN [self EXCEPT !.page_types = make_unique_list(self.page_types \o page_types)]
    ELSE self

add_urls(self, urls) ==
    IF urls # <<>>
    THEN [self EXCEPT !.urls = make_unique_list(self.urls \o urls)]
    ELSE self

\* no object: what a variable holds before a Record is bound to it
Nothing == [nothing |-> TRUE]

\* the outcome of a call: a returned value or a raised exception
Returned(v) == [raised |-> "none", value |-> v]
Raised(exc) == [raised |-> exc, value |-> Nothing]

DomainMismatch == "ValueError: Cannot merge records for different domains"
MissingDomainCsv == "ValueError: CSV row must contain 'domain' field"
MissingDomainJson == "ValueError: JSON record must contain 'domain' field"

\* merge_with that forgets other.phones
merged_record_left_phones(self, other) ==
    LET m0 == NewRecord(self.domain)
        m1 == add_company_names(m0, self.company_names \o other.company_names)
        m2 == add_phones(m1, self.phones)
        m3 == add_social_media(m2, self.social_media \o other.social_media)
        m4 == add_addresses(m3, self.addresses \o other.addresses)
        m5 == add_page_types(m4, self.page_types \o other.page_types)
    IN add_urls(m5, self.urls \o other.urls)

\* merge_with that fills phones from the urls and urls from the phones
merged_record_swapped(self, other) ==
    LET m0 == NewRecord(self.domain)
        m1 == add_company_names(m0, self.company_names \o other.company_names)
        m2 == add_phones(m1, self.urls \o other.urls)
        m3 == add_social_media(m2, self.social_media \o other.social_media)
        m4 == add_addresses(m3, self.addresses \o other.addresses)
        m5 == add_page_types(m4, self.page_types \o other.page_types)
    IN add_urls(m5, self.phones \o other.phones)

\* the body of merge_with after the domain check (lines 98-109)
merged_record(self, other) ==
    LET m0 == NewRecord(self.domain)
        m1 == add_company_names(m0, self.company_names \o other.company_names)
        m2 == add_phones(m1, self.phones \o other.phones)
        m3 == add_social_media(m2, self.social_media \o other.social_media)
        m4 == add_addresses(m3, self.addresses \o other.addresses)
        m5 == add_page_types(m4, self.page_types \o other.page_types)
    IN add_urls(m5, self.urls \o other.urls)

\* merge_with without the domain check
merge_with_unchecked(self, other) ==
    [raised |-> "none", value |-> merged_record(self, other),
     self |-> self, other |-> other]

\* CompanyRecord.merge_with: its outcome, and the two Records it was called
\* on as the call leaves them (the code assigns to neither)
merge_with(self, other) ==
    IF self.domain # other.domain
    THEN [raised |-> DomainMismatch, value |-> Nothing, self |-> self, other |-> other]
    ELSE [raised |-> "none", value |-> merged_record(self, other),
          self |-> self, other |-> other]

\* to_elasticsearch_doc that writes every field, empty or not
to_elasticsearch_doc_all_fields(self) ==
    [k \in {"domain"} \cup FieldNames |-> self[k]]

\* CompanyRecord.to_elasticsearch_doc: a dict with only the non-empty fields
to_elasticsearch_doc(self) ==
    LET keys == {"domain"} \cup {f \in FieldNames : self[f] # <<>>}
    IN [k \in keys |-> self[k]]

\* dict.get(key) with the default None
Get(d, key) == IF key \in DOMAIN d THEN d[key] ELSE None

\* lines 140-141, 143-144 and 146-149 of from_csv_row
csv_commercial_name(r, row) ==
    IF Truthy(Get(row, "company_commercial_name"))
    THEN add_company_names(r, <<row["company_commercial_name"]>>)
    ELSE r
\* lines 143-144 left out: the legal name is not read
csv_legal_name_skipped(r, row) == r

csv_legal_name(r, row) ==
    IF Truthy(Get(row, "company_legal_name"))
    THEN add_company_names(r, <<row["company_legal_name"]>>)
    ELSE r
csv_all_available_names(r, row) ==
    IF Truthy(Get(row, "company_all_available_names"))
    THEN add_company_names_from_pipe_separated(r, row["company_all_available_names"])
    ELSE r

\* from_csv_row without the check of lines 134-135
from_csv_row_unchecked(row) ==
    Returned(csv_all_available_names(
                 csv_legal_name(
                     csv_commercial_name(NewRecord(Get(row, "domain")), row), row), row))

\* CompanyRecord.from_csv_row
from_csv_row(row) ==
    IF "domain" \notin DOMAIN row \/ ~Truthy(row["domain"])
    THEN Raised(MissingDomainCsv)
    ELSE Returned(csv_all_available_names(
                      csv_legal_name(
                          csv_commercial_name(NewRecord(row["domain"]), row), row), row))

\* a JSON social_media value: a str (kind "str", the str in s), or a list
\* of entries (kind "list", the entries in items)
SocialStr(s) == [kind |-> "str", s |-> s, items |-> <<>>]
SocialList(items) == [kind |-> "list", s |-> <<>>, items |-> items]
SocialNull == [kind |-> "null", s |-> <<>>, items |-> <<>>]

\* record.get("social_media") and its truthiness
GetSocial(d) == IF "social_media" \in DOMAIN d THEN d["social_media"] ELSE SocialNull
SocialTruthy(v) ==
    CASE v.kind = "str" -> v.s # <<>>
      [] v.kind = "list" -> v.items # <<>>
      [] OTHER -> FALSE

\* lines 162-163, 166-171, 174-175, 178-179 and 182-183 of from_json_record
json_phone(r, record) ==
    IF Truthy(Get(record, "phone")) THEN add_phones(r, <<record["phone"]>>) ELSE r
json_social_media(r, record) ==
    IF SocialTruthy(GetSocial(record))
    THEN IF record["social_media"].kind = "list"
         THEN add_social_media(r, record["social_media"].items)
         ELSE add_social_media(r, <<record["social_media"].s>>)
    ELSE r
json_address(r, record) ==
    IF Truthy(Get(record, "address")) THEN add_addresses(r, <<record["address"]>>) ELSE r
json_page_type(r, record) ==
    IF Truthy(Get(record, "page_type")) THEN add_page_types(r, <<record["page_type"]>>) ELSE r
json_url(r, record) ==
    IF Truthy(Get(record, "url")) THEN add_urls(r, <<record["url"]>>) ELSE r

\* from_json_record whose check of line 156 only looks for the key
from_json_record_key_only(record) ==
    IF "domain" \notin DOMAIN record
    THEN Raised(MissingDomainJson)
    ELSE Returned(json_url(
                      json_page_type(
                          json_address(
                              json_social_media(
                                  json_phone(NewRecord(record["domain"]), record),
                                  record), record), record), record))

\* CompanyRecord.from_json_record
from_json_record(record) ==
    IF "domain" \notin DOMAIN record \/ ~Truthy(record["domain"])
    THEN Raised(MissingDomainJson)
    ELSE Returned(json_url(
                      json_page_type(
                          json_address(
                              json_social_media(
                                  json_phone(NewRecord(record["domain"]), record),
                                  record), record), record), record))

\* a Python dict that remembers insertion order: keys in order, and the map
EmptyDict == [keys |-> <<>>, map |-> <<>>]
DictHas(d, k) == k \in Range(d.keys)
DictSet(d, k, v) ==
    IF DictHas(d, k)
    THEN [d EXCEPT !.map = [j \in DOMAIN d.map |-> IF j = k THEN v ELSE d.map[j]]]
    ELSE [keys |-> Append(d.keys, k),
          map |-> [j \in (DOMAIN d.map) \cup {k} |-> IF j = k THEN v ELSE d.map[j]]]
\* list(d.values())
DictValues(d) == [j \in 1..Len(d.keys) |-> d.map[d.keys[j]]]

\* the test of line 195 without its second half
SkipsRecord_key_only(record) == "domain" \notin DOMAIN record

\* the test of line 195: the record is skipped
SkipsRecord(record) ==
    IF "domain" \notin DOMAIN record THEN TRUE ELSE ~Truthy(record["domain"])

\* the loop body with an assignment in place of the merge of line 203
agg_step_overwrites(acc, record) ==
    IF acc.raised # "none" \/ SkipsRecord(record) THEN acc
    ELSE LET company_record == from_json_record(record)
         IN IF company_record.raised # "none" THEN Raised(company_record.raised)
            ELSE Returned(DictSet(acc.value, record["domain"], company_record.value))

\* one iteration of the loop of aggregate_json_records_by_domain (lines
\* 195-205) on an outcome so far; an exception ends the loop
agg_step(acc, record) ==
    IF acc.raised # "none" \/ SkipsRecord(record) THEN acc
    ELSE LET domain_records == acc.value
             domain == record["domain"]
             company_record == from_json_record(record)
         IN IF company_record.raised # "none" THEN Raised(company_record.raised)
            ELSE IF DictHas(domain_records, domain)
            THEN LET m == merge_with(domain_records.map[domain], company_record.value)
                 IN IF m.raised # "none" THEN Raised(m.raised)
                    ELSE Returned(DictSet(domain_records, domain, m.value))
            ELSE Returned(DictSet(domain_records, domain, company_record.value))

RECURSIVE agg_loop(_, _)
agg_loop(acc, records) ==
    IF records = <<>> THEN acc
    ELSE agg_loop(agg_step(acc, Head(records)), Tail(records))

\* aggregate_json_records_by_domain
aggregate_json_records_by_domain(records) == agg_loop(Returned(EmptyDict), records)

\* doc.get(key) for a list field: no entries when the key is absent
DocGet(doc, key) == IF key \in DOMAIN doc THEN doc[key] ELSE <<>>

\* lines 223-224, 225-226, 227-228, 229-230, 231-232 and 233-234
doc_company_names(r, doc) ==
    IF DocGet(doc, "company_names") # <<>>
    THEN add_company_names(r, doc["company_names"]) ELSE r
\* lines 225-226 left out: the phones of the document are not read
doc_phones_skipped(r, doc) == r

doc_phones(r, doc) ==
    IF DocGet(doc, "phones") # <<>> THEN add_phones(r, doc["phones"]) ELSE r
doc_social_media(r, doc) ==
    IF DocGet(doc, "social_media") # <<>>
    THEN add_social_media(r, doc["social_media"]) ELSE r
doc_addresses(r, doc) ==
    IF DocGet(doc, "addresses") # <<>> THEN add_addresses(r, doc["addresses"]) ELSE r
doc_page_types(r, doc) ==
    IF DocGet(doc, "page_types") # <<>> THEN add_page_types(r, doc["page_types"]) ELSE r
doc_urls(r, doc) ==
    IF DocGet(doc, "urls") # <<>> THEN add_urls(r, doc["urls"]) ELSE r

\* ElasticsearchImporter._doc_to_company_record
doc_to_company_record(doc, domain) ==
    doc_urls(
        doc_page_types(
            doc_addresses(
                doc_social_media(
                    doc_phones(doc_company_names(NewRecord(domain), doc), doc),
                    doc), doc), doc), doc)

\* the index: its documents by id; no document under an id not in DOMAIN
EmptyIndex == <<>>

index_name == "companies"

\* es_client.get(index, id): the response, NotFoundError when the index
\* holds no such document, or another error when the request fails
es_get(index, id, fails) ==
    IF fails THEN Raised("ConnectionError")
    ELSE IF id \in DOMAIN index THEN Returned([_source |-> index[id]])
    ELSE Raised("NotFoundError")

\* _get_existing_record that lets an unexpected error escape
get_existing_record_reraises(response) ==
    IF response.raised = "none" THEN Returned(response.value._source)
    ELSE IF response.raised = "NotFoundError" THEN Returned(Nothing)
    ELSE Raised(response.raised)

\* ElasticsearchImporter._get_existing_record, given the response of the get
get_existing_record(response) ==
    IF response.raised = "none" THEN Returned(response.value._source)
    ELSE IF response.raised = "NotFoundError" THEN Returned(Nothing)
    ELSE Returned(Nothing)

\* the loop body of _bulk_import_records that never merges
stage_action_overwrites(existing_doc, record) ==
    Returned([_index |-> index_name, _id |-> record.domain,
              _source |-> to_elasticsearch_doc(record)])

\* the loop body that leaves the document id for the store to assign
stage_action_auto_id(existing_doc, record) ==
    Returned([_index |-> index_name, _id |-> <<"auto">>,
              _source |-> to_elasticsearch_doc(record)])

\* the loop body of _bulk_import_records after the get (lines 150-166): the
\* action staged for a candidate, given the existing document or Nothing
stage_action(existing_doc, record) ==
    IF existing_doc # Nothing /\ DOMAIN existing_doc # {}
    THEN LET existing_record == doc_to_company_record(existing_doc, record.domain)
             merged == merge_with(existing_record, record)
         IN IF merged.raised # "none" THEN Raised(merged.raised)
            ELSE Returned([_index |-> index_name, _id |-> record.domain,
                           _source |-> to_elasticsearch_doc(merged.value)])
    ELSE Returned([_index |-> index_name, _id |-> record.domain,
                   _source |-> to_elasticsearch_doc(record)])

\* a bulk helper that leaves a document alone when its id is already stored
RECURSIVE bulk_index_keeps_existing(_, _, _, _)
bulk_index_keeps_existing(index, actions, ok, k) ==
    IF k > Len(actions) THEN index
    ELSE bulk_index_keeps_existing(
             IF k \in ok /\ actions[k]._id \notin DOMAIN index
             THEN (actions[k]._id :> actions[k]._source) @@ index
             ELSE index,
             actions, ok, k + 1)

\* the index after the bulk helper indexed the actions whose position is in
\* ok, in order: a later action for an id replaces an earlier one
RECURSIVE bulk_index(_, _, _, _)
bulk_index(index, actions, ok, k) ==
    IF k > Len(actions) THEN index
    ELSE bulk_index(IF k \in ok
                    THEN (actions[k]._id :> actions[k]._source) @@ index
                    ELSE index,
                    actions, ok, k + 1)

\* what the bulk helper returns when it indexed the actions whose position
\* is in ok: the number of successes and the list of the items that failed
bulk_result(actions, ok) ==
    [success_count |-> Cardinality(ok),
     failed_items |-> SelectSeq([k \in 1..Len(actions) |-> k], LAMBDA k : k \notin ok)]

\* lines 176-185 with failed items escalated to an error
bulk_outcome_escalates(result) ==
    IF result.failed_items # <<>> THEN Raised("BulkIndexError")
    ELSE Returned(result.success_count)

\* lines 176-185: what _bulk_import_records makes of the helper's result
bulk_outcome(result) == Returned(result.success_count)

\* the loop of import_csv_file ended by the first row that raises
RECURSIVE csv_records_stops(_)
csv_records_stops(rows) ==
    IF rows = <<>> THEN <<>>
    ELSE LET out == from_csv_row(Head(rows))
         IN IF out.raised = "none" THEN <<out.value>> \o csv_records_stops(Tail(rows))
            ELSE <<>>

\* the loop of import_csv_file (lines 92-98): rows that raise are skipped
RECURSIVE csv_records(_)
csv_records(rows) ==
    IF rows = <<>> THEN <<>>
    ELSE LET out == from_csv_row(Head(rows))
         IN IF out.raised = "none" THEN <<out.value>> \o csv_records(Tail(rows))
            ELSE csv_records(Tail(rows))

----------------------------------------------------------------------------
(* Inputs                                                                  *)

\* what a scraped page record carries besides its domain
JsonPayloads ==
    { <<>>,
      [phone |-> S_x],
      [phone |-> S_spx, url |-> S_y],
      [phone |-> S_y, social_media |-> SocialList(<<S_x, S_y>>), address |-> S_x,
       page_type |-> S_y, url |-> S_x],
      [social_media |-> SocialStr(S_y), address |-> S_y],
      [social_media |-> SocialList(<<S_y, None, S_spx>>), page_type |-> S_x],
      [phone |-> None, social_media |-> SocialList(<<>>), address |-> S_empty,
       page_type |-> S_xsp, url |-> S_sp] }

\* scraped page records with a usable domain, and without one
ValidRawRecords ==
    {[domain |-> S_d] @@ p : p \in JsonPayloads}
        \cup { [domain |-> S_e, phone |-> S_y],
               [domain |-> S_e, social_media |-> SocialStr(S_x), url |-> S_spx] }
InvalidRawRecords ==
    { [phone |-> S_x],
      [domain |-> S_empty, phone |-> S_y, url |-> S_x],
      [domain |-> None, social_media |-> SocialStr(S_x)] }
RawRecords == ValidRawRecords \cup InvalidRawRecords

\* the name columns of a CSV row
CsvPayloads ==
    { <<>>,
      [company_commercial_name |-> S_x],
      [company_commercial_name |-> S_x, company_legal_name |-> S_y,
       company_all_available_names |-> <<"x", "|", " ", "y", "|", "x">>],
      [company_all_available_names |-> <<"y", "|", "|", "x", " ">>],
      [company_commercial_name |-> S_sp, company_legal_name |-> None,
       company_all_available_names |-> <<"|">>] }

ValidCsvRows == {[domain |-> d] @@ p : d \in Domains, p \in CsvPayloads}
InvalidCsvRows ==
    { [company_commercial_name |-> S_x],
      [domain |-> S_empty, company_legal_name |-> S_y],
      [domain |-> None] }
CsvRows == ValidCsvRows \cup InvalidCsvRows

\* the strings of the row of test_from_csv_row
Example ==
    [domain |-> <<"e", "x", "a", "m", "p", "l", "e", ".", "c", "o", "m">>,
     Corp |-> <<"E", "x", "a", "m", "p", "l", "e", " ", "C", "o", "r", "p">>,
     Corporation_Inc |->
         <<"E", "x", "a", "m", "p", "l", "e", " ", "C", "o", "r", "p", "o", "r">>
             \o <<"a", "t", "i", "o", "n", " ", "I", "n", "c">>,
     Inc |-> <<"E", "x", "a", "m", "p", "l", "e", " ", "I", "n", "c">>,
     Company |-> <<"E", "x", "a", "m", "p", "l", "e", " ", "C", "o", "m", "p", "a", "n", "y">>]

\* the row of test_from_csv_row
ExampleRow ==
    [domain |-> Example.domain,
     company_commercial_name |-> Example.Corp,
     company_legal_name |-> Example.Corporation_Inc,
     company_all_available_names |->
         Example.Corp \o <<"|">> \o Example.Inc \o <<"|">> \o Example.Company]

\* the lists a direct construction is given for a field
CtorLists == {<<>>, <<S_x, None, S_spx>>, <<S_y, S_empty, S_x>>}

\* the Records the two input constructors build from these inputs, and
\* Records with names and scraped fields, as a read-back from the index gives
InputRecords ==
    {from_json_record(r).value : r \in ValidRawRecords}
        \cup {from_csv_row(r).value : r \in ValidCsvRows}
        \cup {CompanyRecord(S_d, n, p, n, p, n, p) :
                 n \in CtorLists \ {<<>>}, p \in CtorLists}

\* documents the index may hold: those the importer writes, and documents
\* indexed by another client, whose lists were never normalised
ForeignDocs ==
    { [domain |-> S_d, phones |-> <<S_x, S_x>>, urls |-> <<>>],
      [domain |-> S_e, company_names |-> <<S_spx, S_y>>, addresses |-> <<S_empty>>] }
Docs == {to_elasticsearch_doc(r) : r \in InputRecords} \cup ForeignDocs

\* the rows of the CSV files and the records of the JSON files imported
ImportCsvRows ==
    { [domain |-> S_d, company_commercial_name |-> S_x],
      [domain |-> S_d, company_commercial_name |-> S_x, company_legal_name |-> S_y,
       company_all_available_names |-> <<"x", "|", " ", "y", "|", "x">>],
      [domain |-> S_e, company_legal_name |-> S_y],
      [domain |-> S_empty, company_legal_name |-> S_y] }
ImportRawRecords ==
    { [domain |-> S_d, phone |-> S_x],
      [domain |-> S_d, phone |-> S_y, social_media |-> SocialList(<<S_x, S_y>>),
       address |-> S_x, page_type |-> S_y, url |-> S_x],
      [domain |-> S_e, social_media |-> SocialStr(S_y), address |-> S_y],
      [phone |-> S_x] }

\* a JSON file whose top-level value is not a list
JsonObject == [not_a_list |-> TRUE]

\* what a file path may lead to: Nothing when no such file exists
CsvFiles == {Nothing} \cup {[rows |-> rs] : rs \in SeqsUpTo(ImportCsvRows, MaxBatch)}
JsonFiles ==
    {Nothing, JsonObject}
        \cup {[json_records |-> rs] : rs \in SeqsUpTo(ImportRawRecords, MaxBatch)}

----------------------------------------------------------------------------
(* State                                                                   *)

VARIABLES
    rec,            \* the Record under construction and mutation, or Nothing
    raised,         \* the exception of the last operation on it, or "none"
    records,        \* aggregator: the list of raw records it was called with
    agg_i,          \* aggregator: index of the next raw record of the loop
    domain_records, \* aggregator: its dict domain -> Record
    agg_pc,         \* aggregator: "idle", "loop", "done" or "raised"
    ma, mb, mc,     \* merge: three Records
    m_out,          \* merge: the outcome of each merge_with call made so far
    m_pc,           \* merge: the next call, "done" or "raised"
    index,          \* Elasticsearch: the documents of the index, by id
    index_exists,   \* Elasticsearch: whether the index was created
    n_imports,      \* the number of imports that returned or raised
    pc,             \* per importer: "idle", "get", "bulk", "done", "raised"
    imp_file,       \* per importer: the content of the file it was given
    imp_records,    \* per importer: the candidates of _bulk_import_records
    imp_gets,       \* per importer: what each get of the loop answered
    imp_actions,    \* per importer: the bulk actions staged so far
    imp_bulk,       \* per importer: what the bulk helper returned, or Nothing
    imp_result,     \* per importer: the outcome of the import, or Nothing
    call            \* a call of a function: its name, argument and outcome

recVars == <<rec, raised>>
aggVars == <<records, agg_i, domain_records, agg_pc>>
mergeVars == <<ma, mb, mc, m_out, m_pc>>
esVars == <<index, index_exists>>
impVars == <<n_imports, pc, imp_file, imp_records, imp_gets, imp_actions, imp_bulk, imp_result>>
vars == <<recVars, aggVars, mergeVars, esVars, impVars, call>>
otherThanRec == <<aggVars, mergeVars, esVars, impVars, call>>
otherThanAgg == <<recVars, mergeVars, esVars, impVars, call>>
otherThanMerge == <<recVars, aggVars, esVars, impVars, call>>
otherThanImport == <<recVars, aggVars, mergeVars, call>>
otherThanCall == <<recVars, aggVars, mergeVars, esVars, impVars>>

\* the importers; SeqProcs is the one that runs when imports do not overlap
Procs == 1..NumProcs
SeqProcs == {1}

\* the components that take no part in a specification stay as they start
RecIdle == rec = Nothing /\ raised = "none"
AggIdle == records = <<>> /\ agg_i = 1 /\ domain_records = EmptyDict /\ agg_pc = "idle"
ImportIdle ==
    /\ index = EmptyIndex /\ index_exists = FALSE /\ n_imports = 0
    /\ pc = [p \in Procs |-> "idle"]
    /\ imp_file = [p \in Procs |-> Nothing]
    /\ imp_records = [p \in Procs |-> <<>>]
    /\ imp_gets = [p \in Procs |-> <<>>]
    /\ imp_actions = [p \in Procs |-> <<>>]
    /\ imp_bulk = [p \in Procs |-> Nothing]
    /\ imp_result = [p \in Procs |-> Nothing]
MergeIdle == ma = Nothing /\ mb = Nothing /\ mc = Nothing /\ m_out = <<>> /\ m_pc = "idle"
CallIdle == call = Nothing

----------------------------------------------------------------------------
(* The life of one Record: construction, the mutators, merging             *)

RecordInit == RecIdle /\ AggIdle /\ MergeIdle /\ ImportIdle /\ CallIdle

\* CompanyRecord(domain, lists...) called directly
Construct ==
    /\ rec = Nothing
    /\ \E domain \in Domains, n, p, s, a, t, u \in CtorLists :
           rec' = CompanyRecord(domain, n, p, s, a, t, u)
    /\ raised' = "none"
    /\ UNCHANGED otherThanRec

\* rec = CompanyRecord.from_csv_row(row)
FromCsvRow ==
    /\ rec = Nothing
    /\ \E row \in CsvRows :
           LET out == from_csv_row(row)
           IN rec' = out.value /\ raised' = out.raised
    /\ UNCHANGED otherThanRec

\* rec = CompanyRecord.from_json_record(record)
FromJsonRecord ==
    /\ rec = Nothing
    /\ \E record \in RawRecords :
           LET out == from_json_record(record)
           IN rec' = out.value /\ raised' = out.raised
    /\ UNCHANGED otherThanRec

\* rec = one of the values of aggregate_json_records_by_domain(records)
FromAggregate ==
    /\ rec = Nothing
    /\ \E raws \in SeqsUpTo(RawRecords, MaxRaw) :
           LET out == aggregate_json_records_by_domain(raws)
           IN /\ out.raised = "none"
              /\ \E k \in 1..Len(out.value.keys) : rec' = DictValues(out.value)[k]
    /\ raised' = "none"
    /\ UNCHANGED otherThanRec

\* rec = importer._doc_to_company_record(doc, domain)
FromDoc ==
    /\ rec = Nothing
    /\ \E doc \in Docs : rec' = doc_to_company_record(doc, doc["domain"])
    /\ raised' = "none"
    /\ UNCHANGED otherThanRec

\* the number of entries a Record holds
RecSize(r) ==
    Len(r.company_names) + Len(r.phones) + Len(r.social_media)
        + Len(r.addresses) + Len(r.page_types) + Len(r.urls)

\* the model stops mutating a Record that holds MaxEntries entries or more
Growable == rec # Nothing /\ RecSize(rec) < MaxEntries

AddCompanyNames ==
    /\ Growable
    /\ \E names \in SeqsUpTo(RawItems, MaxItems) : rec' = add_company_names(rec, names)
    /\ raised' = "none"
    /\ UNCHANGED otherThanRec

AddCompanyNamesFromPipeSeparated ==
    /\ Growable
    /\ \E row \in ValidCsvRows :
           rec' = add_company_names_from_pipe_separated(
                      rec, Get(row, "company_all_available_names"))
    /\ raised' = "none"
    /\ UNCHANGED otherThanRec

AddPhones ==
    /\ Growable
    /\ \E phones \in SeqsUpTo(RawItems, MaxItems) : rec' = add_phones(rec, phones)
    /\ raised' = "none"
    /\ UNCHANGED otherThanRec

AddSocialMedia ==
    /\ Growable
    /\ \E links \in SeqsUpTo(RawItems, MaxItems) : rec' = add_social_media(rec, links)
    /\ raised' = "none"
    /\ UNCHANGED otherThanRec

AddAddresses ==
    /\ Growable
    /\ \E addresses \in SeqsUpTo(RawItems, MaxItems) :
           rec' = add_addresses(rec, addresses)
    /\ raised' = "none"
    /\ UNCHANGED otherThanRec

AddPageTypes ==
    /\ Growable
    /\ \E page_types \in SeqsUpTo(RawItems, MaxItems) :
           rec' = add_page_types(rec, page_types)
    /\ raised' = "none"
    /\ UNCHANGED otherThanRec

AddUrls ==
    /\ Growable
    /\ \E urls \in SeqsUpTo(RawItems, MaxItems) : rec' = add_urls(rec, urls)
    /\ raised' = "none"
    /\ UNCHANGED otherThanRec

\* rec = rec.merge_with(other); when it raises, rec keeps its value
MergeWith ==
    /\ Growable
    /\ \E other \in InputRecords :
           LET out == merge_with(rec, other)
           IN /\ rec' = IF out.raised = "none" THEN out.value ELSE rec
              /\ raised' = out.raised
    /\ UNCHANGED otherThanRec

\* the Record goes out of scope
Discard ==
    /\ rec # Nothing
    /\ rec' = Nothing
    /\ raised' = "none"
    /\ UNCHANGED otherThanRec

RecordNext ==
    \/ Construct
    \/ FromCsvRow
    \/ FromJsonRecord
    \/ FromAggregate
    \/ FromDoc
    \/ AddCompanyNames
    \/ AddCompanyNamesFromPipeSeparated
    \/ AddPhones
    \/ AddSocialMedia
    \/ AddAddresses
    \/ AddPageTypes
    \/ AddUrls
    \/ MergeWith
    \/ Discard

SpecRecord == RecordInit /\ [][RecordNext]_vars

\* a Record built from a list with a None, a blank and a repeated entry,
\* and then given more of the same by a mutator and a merge
C1_Witness ==
    /\ rec # Nothing
    /\ rec.company_names = <<S_y, S_x>>
    /\ rec.phones = <<S_x, S_y>>
    /\ Len(rec.social_media) = 2
    /\ rec.urls # <<>>

\* a list with no None, no entry that is empty after trimming, and no two
\* entries that are equal after trimming
IsUniqueList(l) ==
    /\ \A k \in 1..Len(l) : l[k] # None /\ strip(l[k]) # <<>>
    /\ \A j, k \in 1..Len(l) : j # k => strip(l[j]) # strip(l[k])

\* C1: after any sequence of Record operations each of the six collections
\* of the Record holds no None, no entry that is empty after trimming and
\* no two equal entries
C1_CollectionsUnique ==
    rec # Nothing => \A f \in FieldNames : IsUniqueList(rec[f])

----------------------------------------------------------------------------
(* aggregate_json_records_by_domain, one loop iteration per step           *)

AggInit ==
    /\ records \in SeqsUpTo(RawRecords, MaxRaw)
    /\ agg_i = 1
    /\ domain_records = EmptyDict
    /\ agg_pc = "loop"
    /\ RecIdle /\ MergeIdle /\ ImportIdle /\ CallIdle

\* the effect of one iteration on the aggregator's variables
AggIterate ==
    LET out == agg_step(Returned(domain_records), records[agg_i])
    IN /\ domain_records' = IF out.raised = "none" THEN out.value ELSE domain_records
       /\ agg_pc' = IF out.raised = "none" THEN "loop" ELSE "raised"
       /\ agg_i' = agg_i + 1
       /\ UNCHANGED <<records, otherThanAgg>>

\* line 196: a record without a usable domain is skipped
AggSkip ==
    /\ agg_pc = "loop" /\ agg_i <= Len(records)
    /\ SkipsRecord(records[agg_i])
    /\ AggIterate

\* line 205: the first record of its domain
AggInsert ==
    /\ agg_pc = "loop" /\ agg_i <= Len(records)
    /\ ~SkipsRecord(records[agg_i])
    /\ ~DictHas(domain_records, records[agg_i]["domain"])
    /\ AggIterate

\* line 203: a further record of a domain already seen
AggMerge ==
    /\ agg_pc = "loop" /\ agg_i <= Len(records)
    /\ ~SkipsRecord(records[agg_i])
    /\ DictHas(domain_records, records[agg_i]["domain"])
    /\ AggIterate

\* line 207: return domain_records
AggReturn ==
    /\ agg_pc = "loop" /\ agg_i > Len(records)
    /\ agg_pc' = "done"
    /\ UNCHANGED <<records, agg_i, domain_records, otherThanAgg>>

AggNext == AggSkip \/ AggInsert \/ AggMerge \/ AggReturn

SpecAgg == AggInit /\ [][AggNext]_vars

\* the values one raw record contributes to a field of its domain's Record:
\* the trimmed, non-empty values it carries for that field
Trimmed(S) == {strip(v) : v \in {w \in S : w # None}} \ {<<>>}
Scalar(record, key) == IF key \in DOMAIN record THEN Trimmed({record[key]}) ELSE {}
Contributes(record, f) ==
    CASE f = "company_names" -> {}
      [] f = "phones" -> Scalar(record, "phone")
      [] f = "social_media" ->
            LET v == GetSocial(record)
            IN IF v.kind = "str" THEN Trimmed({v.s}) ELSE Trimmed(Range(v.items))
      [] f = "addresses" -> Scalar(record, "address")
      [] f = "page_types" -> Scalar(record, "page_type")
      [] f = "urls" -> Scalar(record, "url")

\* the raw records of the input that carry a non-empty domain
HasDomain(record) ==
    "domain" \in DOMAIN record /\ record["domain"] # None /\ record["domain"] # <<>>
DomainsSeen == {records[k]["domain"] : k \in {j \in 1..Len(records) : HasDomain(records[j])}}

\* C4: the aggregator returns exactly one Record per distinct non-empty
\* domain of its input, keyed by that domain, and each of its fields holds,
\* as a set, the union of what the raw records of that domain contribute
C4_OneRecordPerDomain ==
    agg_pc = "done" =>
        /\ Range(domain_records.keys) = DomainsSeen
        /\ DOMAIN domain_records.map = DomainsSeen
        /\ Len(domain_records.keys) = Cardinality(DomainsSeen)
        /\ \A d \in DomainsSeen :
              /\ domain_records.map[d].domain = d
              /\ \A f \in FieldNames :
                    Range(domain_records.map[d][f]) =
                        UNION {Contributes(records[k], f) :
                                 k \in {j \in 1..Len(records) :
                                          HasDomain(records[j]) /\ records[j]["domain"] = d}}

\* a call with a missing-domain record, several records of one domain, done
C4_Witness ==
    /\ agg_pc = "done"
    /\ \E d \in DomainsSeen :
          /\ Cardinality({j \in 1..Len(records) :
                            HasDomain(records[j]) /\ records[j]["domain"] = d}) >= 2
          /\ Len(domain_records.map[d].social_media) >= 2
          /\ Len(domain_records.map[d].phones) >= 2

\* the input with the records of no usable domain removed
RECURSIVE WithoutInvalid(_)
WithoutInvalid(rs) ==
    IF rs = <<>> THEN <<>>
    ELSE IF HasDomain(Head(rs)) THEN <<Head(rs)>> \o WithoutInvalid(Tail(rs))
    ELSE WithoutInvalid(Tail(rs))

\* C5: raw records whose domain is missing or empty are dropped without
\* raising: the result equals that of aggregating the input without them
C5_InvalidDropped ==
    /\ agg_pc # "raised"
    /\ agg_pc = "done" =>
          Returned(domain_records) = aggregate_json_records_by_domain(WithoutInvalid(records))

C5_Witness ==
    /\ agg_pc = "done"
    /\ WithoutInvalid(records) # records
    /\ WithoutInvalid(records) # <<>>
    /\ \E k \in 2..Len(records) : ~HasDomain(records[k - 1]) /\ HasDomain(records[k])

\* two dicts domain -> Record have the same domains and, per domain and
\* field, the same set of values
SameContent(d1, d2) ==
    /\ Range(d1.keys) = Range(d2.keys)
    /\ \A d \in Range(d1.keys) : \A f \in FieldNames :
          Range(d1.map[d][f]) = Range(d2.map[d][f])

\* the orderings of 1..n
Perms(n) == {p \in [1..n -> 1..n] : \A j, k \in 1..n : j # k => p[j] # p[k]}

\* C6: the aggregator's result is the same, as sets, for every permutation
\* of its input
C6_OrderIndependent ==
    agg_pc = "done" =>
        \A p \in Perms(Len(records)) :
            LET out == aggregate_json_records_by_domain([k \in 1..Len(records) |-> records[p[k]]])
            IN out.raised = "none" /\ SameContent(out.value, domain_records)

\* an input whose reversal gives a field another order
C6_Witness ==
    /\ agg_pc = "done"
    /\ Len(records) >= 2
    /\ LET rev == aggregate_json_records_by_domain(
                      [k \in 1..Len(records) |-> records[Len(records) + 1 - k]])
       IN \E d \in Range(domain_records.keys) :
             rev.value.map[d].phones # domain_records.map[d].phones

----------------------------------------------------------------------------
(* merge_with applied to three Records a, b, c                             *)

MergeInit ==
    /\ ma \in InputRecords /\ mb \in InputRecords /\ mc \in InputRecords
    /\ m_out = <<>>
    /\ m_pc = "ab"
    /\ RecIdle /\ AggIdle /\ ImportIdle /\ CallIdle

\* name = x.merge_with(y), where x and y are held in ma, mb or mc (arg
\* names which) or are results of earlier calls; an exception ends the run
MergeCall(name, x, y, xarg, yarg, next) ==
    LET out == merge_with(x, y)
        After(arg, old) == IF xarg = arg THEN out.self
                           ELSE IF yarg = arg THEN out.other ELSE old
    IN /\ m_pc = name
       /\ m_out' = (name :> [raised |-> out.raised, value |-> out.value]) @@ m_out
       /\ m_pc' = IF out.raised = "none" THEN next ELSE "raised"
       /\ ma' = After("a", ma)
       /\ mb' = After("b", mb)
       /\ mc' = After("c", mc)
       /\ UNCHANGED otherThanMerge

MergeAB == MergeCall("ab", ma, mb, "a", "b", "ba")
MergeBA == MergeCall("ba", mb, ma, "b", "a", "ab_b")
MergeAB_B == MergeCall("ab_b", m_out["ab"].value, mb, "", "b", "bc")
MergeBC == MergeCall("bc", mb, mc, "b", "c", "ab_c")
MergeAB_C == MergeCall("ab_c", m_out["ab"].value, mc, "", "c", "a_bc")
MergeA_BC == MergeCall("a_bc", ma, m_out["bc"].value, "a", "", "done")

MergeNext == MergeAB \/ MergeBA \/ MergeAB_B \/ MergeBC \/ MergeAB_C \/ MergeA_BC

SpecMerge == MergeInit /\ [][MergeNext]_vars

\* two Records hold the same set of values in every field
SameFieldSets(r1, r2) == \A f \in FieldNames : Range(r1[f]) = Range(r2[f])

Called(name) == name \in DOMAIN m_out

\* C7: for same-domain Records a and b, a.merge_with(b) and b.merge_with(a)
\* hold the same set of values in every field
C7_MergeCommutative ==
    (ma.domain = mb.domain /\ Called("ab") /\ Called("ba")) =>
        /\ m_out["ab"].raised = "none" /\ m_out["ba"].raised = "none"
        /\ SameFieldSets(m_out["ab"].value, m_out["ba"].value)

\* both orders were computed and put some field in different orders
C7_Witness ==
    /\ Called("ab") /\ Called("ba")
    /\ m_out["ba"].raised = "none"
    /\ m_out["ab"].value.social_media # m_out["ba"].value.social_media
    /\ m_out["ab"].value.company_names # <<>>

\* C8: for same-domain Records a, b, c, a.merge_with(b).merge_with(c) and
\* a.merge_with(b.merge_with(c)) hold the same set of values in every field
C8_MergeAssociative ==
    (ma.domain = mb.domain /\ mb.domain = mc.domain /\ Called("ab_c") /\ Called("a_bc")) =>
        /\ m_out["ab_c"].raised = "none" /\ m_out["a_bc"].raised = "none"
        /\ SameFieldSets(m_out["ab_c"].value, m_out["a_bc"].value)

\* both groupings were computed from three Records with different contents
C8_Witness ==
    /\ Called("ab_c") /\ Called("a_bc")
    /\ m_out["a_bc"].raised = "none"
    /\ ma # mb /\ mb # mc /\ ma # mc
    /\ Len(m_out["a_bc"].value.phones) >= 2
    /\ m_out["ab"].value # ma /\ m_out["bc"].value # mb

\* C9: for same-domain Records a and b, a.merge_with(b).merge_with(b) holds
\* the same field sets as a.merge_with(b)
C9_MergeIdempotent ==
    (ma.domain = mb.domain /\ Called("ab_b")) =>
        /\ m_out["ab_b"].raised = "none"
        /\ SameFieldSets(m_out["ab_b"].value, m_out["ab"].value)

\* b was merged twice into a, and b brought values a did not have
C9_Witness ==
    /\ Called("ab_b")
    /\ m_out["ab_b"].raised = "none"
    /\ ~SameFieldSets(ma, m_out["ab"].value)
    /\ mb.urls # <<>> /\ mb.phones # <<>>

\* C10: merge_with on Records of different domains raises the
\* domain-mismatch ValueError, returns no Record and changes neither Record
C10_MismatchRaises ==
    [][(m_pc = "ab" /\ ma.domain # mb.domain) =>
          /\ m_pc' = "raised"
          /\ m_out'["ab"] = Raised(DomainMismatch)
          /\ ma' = ma /\ mb' = mb]_vars

\* a merge of two non-empty Records of different domains was attempted
C10_Witness ==
    /\ m_pc = "raised"
    /\ Called("ab")
    /\ ma.domain # mb.domain
    /\ ma.company_names # <<>> /\ mb.phones # <<>>

\* C11: for same-domain Records a and b, a.merge_with(b) returns a Record of
\* that domain whose every field is unique(a.field followed by b.field),
\* and the call leaves the domain and the six fields of a and of b as they were
C11_MergeNewRecord ==
    [][(m_pc = "ab" /\ ma.domain = mb.domain) =>
          /\ m_out'["ab"].raised = "none"
          /\ m_out'["ab"].value.domain = ma.domain
          /\ \A f \in FieldNames :
                m_out'["ab"].value[f] = make_unique_list(ma[f] \o mb[f])
          /\ ma' = ma /\ mb' = mb]_vars

\* a merge whose result differs from both Records and dropped a repeated value
C11_Witness ==
    /\ Called("ab")
    /\ m_out["ab"].raised = "none"
    /\ m_out["ab"].value # ma /\ m_out["ab"].value # mb
    /\ Len(m_out["ab"].value.phones) < Len(ma.phones) + Len(mb.phones)
    /\ Len(m_out["ab"].value.phones) > Len(ma.phones)

----------------------------------------------------------------------------
(* ElasticsearchImporter: the two imports and the upsert protocol          *)

ImportInit ==
    /\ ImportIdle
    /\ RecIdle /\ AggIdle /\ MergeIdle /\ CallIdle

\* _bulk_import_records up to its loop: with no candidate it returns 0
BeginBulkImport(p, file, candidates) ==
    /\ imp_file' = [imp_file EXCEPT ![p] = file]
    /\ imp_records' = [imp_records EXCEPT ![p] = candidates]
    /\ imp_gets' = [imp_gets EXCEPT ![p] = <<>>]
    /\ imp_actions' = [imp_actions EXCEPT ![p] = <<>>]
    /\ imp_bulk' = [imp_bulk EXCEPT ![p] = Nothing]
    /\ IF candidates = <<>>
       THEN /\ pc' = [pc EXCEPT ![p] = "done"]
            /\ imp_result' = [imp_result EXCEPT ![p] = Returned(0)]
       ELSE /\ pc' = [pc EXCEPT ![p] = "get"]
            /\ imp_result' = [imp_result EXCEPT ![p] = Nothing]

\* the import fails before it reaches _bulk_import_records
FailImport(p, file, exc) ==
    /\ imp_file' = [imp_file EXCEPT ![p] = file]
    /\ imp_records' = [imp_records EXCEPT ![p] = <<>>]
    /\ imp_gets' = [imp_gets EXCEPT ![p] = <<>>]
    /\ imp_actions' = [imp_actions EXCEPT ![p] = <<>>]
    /\ imp_bulk' = [imp_bulk EXCEPT ![p] = Nothing]
    /\ pc' = [pc EXCEPT ![p] = "raised"]
    /\ imp_result' = [imp_result EXCEPT ![p] = Raised(exc)]

\* import_csv_file up to the loop of _bulk_import_records
ImportCsvFile(p) ==
    /\ pc[p] = "idle" /\ n_imports < MaxImports
    /\ \E file \in CsvFiles :
          IF file = Nothing
          THEN FailImport(p, file, "FileNotFoundError") /\ UNCHANGED index_exists
          ELSE index_exists' = TRUE /\ BeginBulkImport(p, file, csv_records(file.rows))
    /\ UNCHANGED <<index, n_imports, otherThanImport>>

\* import_json_file up to the loop of _bulk_import_records
ImportJsonFile(p) ==
    /\ pc[p] = "idle" /\ n_imports < MaxImports
    /\ \E file \in JsonFiles :
          IF file = Nothing
          THEN FailImport(p, file, "FileNotFoundError") /\ UNCHANGED index_exists
          ELSE IF file = JsonObject
          THEN /\ index_exists' = TRUE
               /\ FailImport(p, file, "ValueError: JSON file must contain a list of records")
          ELSE LET domain_recs == aggregate_json_records_by_domain(file.json_records)
               IN /\ index_exists' = TRUE
                  /\ IF domain_recs.raised # "none"
                     THEN FailImport(p, file, domain_recs.raised)
                     ELSE BeginBulkImport(p, file, DictValues(domain_recs.value))
    /\ UNCHANGED <<index, n_imports, otherThanImport>>

\* one iteration of the loop of _bulk_import_records (lines 146-166): the
\* get for the next candidate, and the action staged from its answer
GetAndStage(p) ==
    /\ pc[p] = "get"
    /\ \E fails \in BOOLEAN :
          LET record == imp_records[p][Len(imp_actions[p]) + 1]
              response == es_get(index, record.domain, fails)
              existing_doc == get_existing_record(response)
              action == IF existing_doc.raised # "none" THEN existing_doc
                        ELSE stage_action(existing_doc.value, record)
          IN /\ imp_gets' = [imp_gets EXCEPT ![p] = Append(@, response.raised)]
             /\ IF action.raised # "none"
                THEN /\ pc' = [pc EXCEPT ![p] = "raised"]
                     /\ imp_result' = [imp_result EXCEPT ![p] = Raised(action.raised)]
                     /\ UNCHANGED imp_actions
                ELSE /\ imp_actions' = [imp_actions EXCEPT ![p] = Append(@, action.value)]
                     /\ pc' = [pc EXCEPT ![p] =
                                 IF Len(imp_actions[p]) + 1 = Len(imp_records[p])
                                 THEN "bulk" ELSE "get"]
                     /\ UNCHANGED imp_result
    /\ UNCHANGED <<index, index_exists, n_imports, imp_file, imp_records, imp_bulk,
                   otherThanImport>>

\* the bulk call (lines 169-189): the helper indexes the actions in ok and
\* either returns (success count, failed items) or raises
BulkWrite(p) ==
    /\ pc[p] = "bulk"
    /\ \E ok \in SUBSET (1..Len(imp_actions[p])), raises \in BOOLEAN :
          /\ index' = bulk_index(index, imp_actions[p], ok, 1)
          /\ IF raises
             THEN /\ pc' = [pc EXCEPT ![p] = "raised"]
                  /\ imp_result' = [imp_result EXCEPT ![p] = Raised("BulkError")]
                  /\ UNCHANGED imp_bulk
             ELSE LET result == bulk_result(imp_actions[p], ok)
                      out == bulk_outcome(result)
                  IN /\ imp_bulk' = [imp_bulk EXCEPT ![p] = result]
                     /\ pc' = [pc EXCEPT ![p] =
                                 IF out.raised = "none" THEN "done" ELSE "raised"]
                     /\ imp_result' = [imp_result EXCEPT ![p] = out]
    /\ UNCHANGED <<index_exists, n_imports, imp_file, imp_records, imp_gets,
                   imp_actions, otherThanImport>>

\* the import returns to its caller, or its exception reaches the caller
EndImport(p) ==
    /\ pc[p] \in {"done", "raised"}
    /\ pc' = [pc EXCEPT ![p] = "idle"]
    /\ n_imports' = n_imports + 1
    /\ imp_file' = [imp_file EXCEPT ![p] = Nothing]
    /\ imp_records' = [imp_records EXCEPT ![p] = <<>>]
    /\ imp_gets' = [imp_gets EXCEPT ![p] = <<>>]
    /\ imp_actions' = [imp_actions EXCEPT ![p] = <<>>]
    /\ imp_bulk' = [imp_bulk EXCEPT ![p] = Nothing]
    /\ imp_result' = [imp_result EXCEPT ![p] = Nothing]
    /\ UNCHANGED <<index, index_exists, otherThanImport>>

\* delete_index, called between two imports
DeleteIndex(p) ==
    /\ pc[p] = "idle"
    /\ index_exists
    /\ index' = EmptyIndex
    /\ index_exists' = FALSE
    /\ UNCHANGED <<impVars, otherThanImport>>

ImportNext ==
    \E p \in SeqProcs :
        \/ ImportCsvFile(p)
        \/ ImportJsonFile(p)
        \/ GetAndStage(p)
        \/ BulkWrite(p)
        \/ EndImport(p)
        \/ DeleteIndex(p)

SpecImport == ImportInit /\ [][ImportNext]_vars

\* the values a document holds in a field; none when it lacks the key
DocField(doc, f) == IF f \in DOMAIN doc THEN Range(doc[f]) ELSE {}
\* every value of every field of small is in the same field of big
DocContains(big, small) == \A f \in FieldNames : DocField(small, f) \subseteq DocField(big, f)

\* the positions of the candidates of importer p for domain d
CandidatesFor(p, d) == {k \in 1..Len(imp_records[p]) : imp_records[p][k].domain = d}

\* a bulk write of importer p has replaced the document stored under d
Rewrites(p, d) ==
    /\ pc[p] = "bulk"
    /\ d \in DOMAIN index /\ d \in DOMAIN index'
    /\ index'[d] # index[d]

C3_GetFailureTolerated ==
    \A p \in Procs :
        /\ \A k \in 1..Len(imp_gets[p]) :
              imp_gets[p][k] # "none" =>
                  /\ Len(imp_actions[p]) >= k
                  /\ imp_actions[p][k]._source = to_elasticsearch_doc(imp_records[p][k])
        /\ (pc[p] \in {"bulk", "done", "raised"} /\ imp_records[p] # <<>>) =>
              /\ Len(imp_gets[p]) = Len(imp_records[p])
              /\ Len(imp_actions[p]) = Len(imp_records[p])

\* a batch whose first get failed on a stored document and whose second
\* get found nothing, all of it staged
C3_Witness ==
    /\ pc[1] = "bulk"
    /\ imp_gets[1] = <<"ConnectionError", "NotFoundError">>
    /\ imp_records[1][1].domain \in DOMAIN index
    /\ Len(imp_actions[1]) = 2

\* a domain value that is a non-empty str
NonEmpty(domain) == domain # None /\ domain # <<>>

\* C15: every candidate Record of an import (built by from_csv_row, or by
\* the aggregator from from_json_record and merge_with), every document
\* staged for the store (the candidate's, or that of the Record rebuilt from
\* the stored document and merged with it) and every stored document has a
\* non-empty domain
C15_DomainNeverEmpty ==
    /\ \A p \in Procs :
          /\ \A k \in 1..Len(imp_records[p]) : NonEmpty(imp_records[p][k].domain)
          /\ \A k \in 1..Len(imp_actions[p]) :
                /\ NonEmpty(imp_actions[p][k]._id)
                /\ NonEmpty(imp_actions[p][k]._source["domain"])
    /\ \A d \in DOMAIN index : NonEmpty(d) /\ NonEmpty(index[d]["domain"])

\* a CSV file with a row of empty domain and a good row, the good row's
\* Record merged with the Record rebuilt from the stored document
C15_Witness ==
    /\ pc[1] = "bulk"
    /\ "rows" \in DOMAIN imp_file[1]
    /\ \E k \in 1..Len(imp_file[1].rows) : ~HasDomain(imp_file[1].rows[k])
    /\ imp_gets[1] = <<"none">>
    /\ imp_actions[1][1]._source # to_elasticsearch_doc(imp_records[1][1])

\* the Records of the rows that carry a domain, in row order
RowRecords(rows) ==
    LET valid == SelectSeq(rows, HasDomain)
    IN [k \in 1..Len(valid) |-> from_csv_row(valid[k]).value]

C19_PartialFailureReturned ==
    \A p \in Procs :
        imp_bulk[p] # Nothing =>
            /\ pc[p] = "done"
            /\ imp_result[p] = Returned(imp_bulk[p].success_count)
            /\ imp_result[p].value =
                   Len(imp_actions[p]) - Len(imp_bulk[p].failed_items)

\* a bulk write of two actions, one written and one failed
C19_Witness ==
    /\ pc[1] = "done"
    /\ imp_bulk[1] # Nothing
    /\ Len(imp_bulk[1].failed_items) = 1
    /\ imp_result[1] = Returned(1)

----------------------------------------------------------------------------
(* Importers that run at the same time, one import each                    *)

\* the files given to importers that run at the same time
ConcFiles ==
    { [rows |-> <<[domain |-> S_d, company_commercial_name |-> S_x]>>],
      [rows |-> <<[domain |-> S_d, company_legal_name |-> S_y],
                  [domain |-> S_e, company_legal_name |-> S_y]>>],
      [json_records |-> <<[domain |-> S_d, phone |-> S_x]>>],
      [json_records |-> <<[domain |-> S_d, phone |-> S_y, url |-> S_x],
                          [domain |-> S_d, phone |-> S_spx]>>] }

\* import_csv_file or import_json_file of importer p, up to the loop of
\* _bulk_import_records, on a file that exists and holds rows or a list
ConcImport(p) ==
    /\ pc[p] = "idle"
    /\ \E file \in ConcFiles :
          IF "rows" \in DOMAIN file
          THEN BeginBulkImport(p, file, csv_records(file.rows))
          ELSE BeginBulkImport(p, file,
                   DictValues(aggregate_json_records_by_domain(file.json_records).value))
    /\ index_exists' = TRUE
    /\ UNCHANGED <<index, n_imports, otherThanImport>>

ConcNext ==
    \E p \in Procs :
        \/ ConcImport(p)
        \/ GetAndStage(p)
        \/ BulkWrite(p)

SpecConc == ImportInit /\ [][ConcNext]_vars

\* the positions of the actions of importer p that its bulk write indexed,
\* read from the result the helper returned with that step
Written(p) ==
    {k \in 1..Len(imp_actions[p]) : k \notin Range(imp_bulk'[p].failed_items)}

\* C24: the upsert is not atomic. A bulk write stores each document as it
\* was staged after the get, whatever the index holds by then: the later
\* write wins outright, and no document it did not write changes
C24_LaterWriteWins ==
    [][\A p \in Procs :
          (pc[p] = "bulk" /\ pc'[p] = "done") =>
              /\ \A k \in Written(p) :
                    \E last \in Written(p) :
                        /\ imp_actions[p][last]._id = imp_actions[p][k]._id
                        /\ \A j \in Written(p) :
                              imp_actions[p][j]._id = imp_actions[p][k]._id => j <= last
                        /\ index'[imp_actions[p][k]._id] = imp_actions[p][last]._source
              /\ \A d \in DOMAIN index :
                    (\A k \in Written(p) : imp_actions[p][k]._id # d) =>
                        index'[d] = index[d]]_vars

\* both importers got not-found for the domain before either wrote, both
\* wrote, and the stored document lacks what one of them contributed
C24_LostUpdate ==
    /\ pc[1] = "done" /\ pc[2] = "done"
    /\ imp_gets[1] = <<"NotFoundError">> /\ imp_gets[2] = <<"NotFoundError">>
    /\ imp_records[1][1].domain = S_d /\ imp_records[2][1].domain = S_d
    /\ imp_bulk[1].failed_items = <<>> /\ imp_bulk[2].failed_items = <<>>
    /\ \E p \in {1, 2} :
          ~DocContains(index[S_d], to_elasticsearch_doc(imp_records[p][1]))

\* C25: under every interleaving of the gets and bulk writes of the
\* importers, every field of every stored document is free of duplicates
\* and of empty entries, and each of its values was contributed to that
\* field by a candidate Record of some importer for the same domain (the
\* index starts empty)
C25_NoCorruption ==
    \A d \in DOMAIN index : \A f \in FieldNames :
        /\ IsUniqueList(DocGet(index[d], f))
        /\ DocField(index[d], f) \subseteq
               UNION {UNION {Range(imp_records[p][k][f]) : k \in CandidatesFor(p, d)} :
                         p \in Procs}

\* importer 2 read the document importer 1 had written, while importer 1
\* had read nothing: the stored document holds both contributions once
C25_Witness ==
    /\ pc[1] = "done" /\ pc[2] = "done"
    /\ imp_gets[1] = <<"NotFoundError">> /\ imp_gets[2] = <<"none">>
    /\ imp_records[1][1].domain = S_d /\ imp_records[2][1].domain = S_d
    /\ imp_bulk[1].failed_items = <<>> /\ imp_bulk[2].failed_items = <<>>
    /\ Len(imp_records[1][1].phones) = 2 /\ imp_records[2][1].phones = <<S_x>>
    /\ index[S_d] = imp_actions[2][1]._source
    /\ Len(index[S_d]["phones"]) = 2

----------------------------------------------------------------------------
(* build_search_query (dashboard/api.py)                                   *)

\* most criteria of one kind handed to build_search_query
MaxCriteria == 2

HIGHEST_BOOST == 3
MEDIUM_BOOST == 2
LOWEST_BOOST == 1

\* str.isupper() of one character
isupper(char) ==
    char \in {"A", "B", "C", "D", "E", "F", "G", "H", "I", "J", "K", "L", "M",
              "N", "O", "P", "Q", "R", "S", "T", "U", "V", "W", "X", "Y", "Z"}

\* {"match": {field: {"query": ..., "fuzziness": "AUTO", "boost": ...}}}
match_clause(field, query, boost) ==
    [match |-> (field :> [query |-> query, fuzziness |-> "AUTO", boost |-> boost])]

\* {"term": {field: {"value": ..., "boost": ...}}}
term_clause(field, value, boost) ==
    [term |-> (field :> [value |-> value, boost |-> boost])]

\* the loop over the characters of a name without the length tests
RECURSIVE split_capitals_keeps_short(_, _, _)
split_capitals_keeps_short(name, name_parts, current_part) ==
    LET kept == IF current_part # <<>>
                THEN Append(name_parts, current_part)
                ELSE name_parts
    IN IF name = <<>> THEN kept
       ELSE IF isupper(Head(name))
       THEN split_capitals_keeps_short(Tail(name), kept, <<Head(name)>>)
       ELSE split_capitals_keeps_short(Tail(name), name_parts,
                                       Append(current_part, Head(name)))

\* the loop over the characters of a name and the test after it (lines
\* 257-266): current_part joins name_parts when it has three characters or more
RECURSIVE split_capitals(_, _, _)
split_capitals(name, name_parts, current_part) ==
    LET kept == IF current_part # <<>> /\ Len(current_part) >= 3
                THEN Append(name_parts, current_part)
                ELSE name_parts
    IN IF name = <<>> THEN kept
       ELSE IF isupper(Head(name))
       THEN split_capitals(Tail(name), kept, <<Head(name)>>)
       ELSE split_capitals(Tail(name), name_parts, Append(current_part, Head(name)))

\* " ".join(parts)
RECURSIVE join(_)
join(parts) ==
    IF parts = <<>> THEN <<>>
    ELSE IF Len(parts) = 1 THEN parts[1]
    ELSE parts[1] \o <<" ">> \o join(Tail(parts))

\* the clauses one name adds to should_clauses (lines 233-279)
name_clauses(name) ==
    LET name_parts == split_capitals(name, <<>>, <<>>)
    IN <<match_clause("company_names", name, HIGHEST_BOOST),
         term_clause("company_names.keyword", name, HIGHEST_BOOST)>>
           \o IF name_parts # <<>>
              THEN <<match_clause("company_names", join(name_parts), MEDIUM_BOOST)>>
              ELSE <<>>

\* the loop over the names (lines 230-279)
RECURSIVE names_clauses(_)
names_clauses(names) ==
    IF names = <<>> THEN <<>>
    ELSE name_clauses(Head(names)) \o names_clauses(Tail(names))

\* should_clauses after the four loops (lines 223-311): the clauses of the
\* names, one per phone, two per url, one per address
should_clauses(names, phones, urls, addresses) ==
    names_clauses(names)
        \o [k \in 1..Len(phones) |-> term_clause("phones", phones[k], MEDIUM_BOOST)]
        \o [k \in 1..(2 * Len(urls)) |->
               IF k % 2 = 1
               THEN term_clause("domain", urls[(k + 1) \div 2], HIGHEST_BOOST)
               ELSE term_clause("urls", urls[k \div 2], MEDIUM_BOOST)]
        \o [k \in 1..Len(addresses) |->
               match_clause("addresses", addresses[k], LOWEST_BOOST)]

\* the query body of lines 318-321 without its sort
bool_query_unsorted(clauses) ==
    [query |-> [bool |-> [should |-> clauses, minimum_should_match |-> 1]]]

\* the query body built from the clauses (lines 318-321)
bool_query(clauses) ==
    [query |-> [bool |-> [should |-> clauses, minimum_should_match |-> 1]],
     sort |-> <<[_score |-> [order |-> "desc"]]>>]

\* build_search_query without the fallback of lines 314-315
build_search_query_no_fallback(names, phones, urls, addresses) ==
    Returned(bool_query(should_clauses(names, phones, urls, addresses)))

\* build_search_query
build_search_query(names, phones, urls, addresses) ==
    IF should_clauses(names, phones, urls, addresses) = <<>>
    THEN Returned([query |-> [match_all |-> <<>>]])
    ELSE Returned(bool_query(should_clauses(names, phones, urls, addresses)))

\* the criteria of a search: names, normalised phones, cleaned urls, addresses
QueryArgs ==
    [names : SeqsUpTo({<<"A", "c", "m", "e">>,
                       <<"A", "c", "m", "e", "C", "o", "r", "p">>,
                       <<"A", "c", "m", "e", "W", "i", "d", "g", "e", "t", "s">>,
                       <<"I", "B", "M">>, <<"a", "b", " ", "C", "o">>}, MaxCriteria),
     phones : SeqsUpTo({<<"5", "5", "5">>}, MaxCriteria),
     urls : SeqsUpTo({<<"a", "c", "m", "e", ".", "c", "o", "m">>, S_d}, MaxCriteria),
     addresses : SeqsUpTo({<<"1", " ", "M", "a", "i", "n">>}, MaxCriteria)]

\* the handling of the hits with zero hits reported as a failure
search_response_no_hits_fails(hits, debug, search_criteria) ==
    IF hits = <<>>
    THEN [status |-> 500, body |-> [error |-> "Internal server error"]]
    ELSE [status |-> 200,
          body |-> [found |-> TRUE, score |-> hits[1]._score,
                    company |-> hits[1]._source, search_criteria |-> search_criteria]]

\* the handling of the hits in search_companies (lines 151-200)
search_response(hits, debug, search_criteria) ==
    IF hits = <<>>
    THEN [status |-> 404,
          body |-> [found |-> FALSE, message |-> "No matching companies found",
                    search_criteria |-> search_criteria]]
    ELSE IF debug
    THEN [status |-> 200,
          body |-> [found |-> TRUE,
                    results |-> [k \in 1..Len(hits) |->
                                    [score |-> hits[k]._score, company |-> hits[k]._source]],
                    search_criteria |-> search_criteria]]
    ELSE [status |-> 200,
          body |-> [found |-> TRUE, score |-> hits[1]._score,
                    company |-> hits[1]._source, search_criteria |-> search_criteria]]

\* search_companies for a request whose JSON body is data (Nothing when the
\* body is no JSON): an object with the lists name and address and the flag
\* debug, and no phone and no urls. connects: whether the connection test
\* of the importer's constructor passes; search: what es_client.search does
search_companies(data, connects, search) ==
    LET has(values) == \E k \in 1..Len(values) : strip(values[k]) # <<>>
        clean(values) ==
            LET kept == SelectSeq(values, LAMBDA v : v # <<>> /\ strip(v) # <<>>)
            IN [k \in 1..Len(kept) |-> strip(kept[k])]
    IN IF data = Nothing
       THEN [status |-> 400, body |-> [error |-> "No JSON data provided"]]
       ELSE IF ~(has(data.name) \/ has(data.address))
       THEN [status |-> 400,
             body |-> [error |-> "At least one search field must be provided"]]
       ELSE IF ~connects \/ search.raised # "none"
       THEN [status |-> 500, body |-> [error |-> "Internal server error"]]
       ELSE search_response(search.value.hits.hits, data.debug,
                            [names |-> clean(data.name), normalized_phones |-> <<>>,
                             cleaned_urls |-> <<>>, addresses |-> clean(data.address)])

----------------------------------------------------------------------------
(* Single calls of the functions of the two modules                        *)

\* longest list handed to _make_unique_list in a call of its own
MaxList == 4

\* the entries such a list may hold
ListItems == {None, S_empty, S_sp, S_x, S_spx, S_xsp, S_y}

CallInit == CallIdle /\ RecIdle /\ AggIdle /\ MergeIdle /\ ImportIdle

\* out = CompanyRecord._make_unique_list(items)
CallMakeUniqueList ==
    /\ call = Nothing
    /\ \E items \in SeqsUpTo(ListItems, MaxList) :
          call' = [fn |-> "_make_unique_list", arg |-> items,
                   out |-> make_unique_list(items)]
    /\ UNCHANGED otherThanCall

\* doc = r.to_elasticsearch_doc(), then
\* out = importer._doc_to_company_record(doc, r.domain)
CallRoundTrip ==
    /\ call = Nothing
    /\ \E domain \in Domains, n, p, s, a, t, u \in CtorLists :
          LET r == CompanyRecord(domain, n, p, s, a, t, u)
              doc == to_elasticsearch_doc(r)
          IN call' = [fn |-> "round_trip", arg |-> r, doc |-> doc,
                      out |-> doc_to_company_record(doc, r.domain)]
    /\ UNCHANGED otherThanCall

\* out = CompanyRecord.from_csv_row(row)
CallFromCsvRow ==
    /\ call = Nothing
    /\ \E row \in CsvRows \cup {ExampleRow} :
          call' = [fn |-> "from_csv_row", arg |-> row, out |-> from_csv_row(row)]
    /\ UNCHANGED otherThanCall

\* out = CompanyRecord.from_json_record(record)
CallFromJsonRecord ==
    /\ call = Nothing
    /\ \E record \in RawRecords :
          call' = [fn |-> "from_json_record", arg |-> record,
                   out |-> from_json_record(record)]
    /\ UNCHANGED otherThanCall

\* out = build_search_query(names, phones, urls, addresses)
CallBuildSearchQuery ==
    /\ call = Nothing
    /\ \E arg \in QueryArgs :
          call' = [fn |-> "build_search_query", arg |-> arg,
                   out |-> build_search_query(arg.names, arg.phones, arg.urls,
                                              arg.addresses)]
    /\ UNCHANGED otherThanCall

\* out = the response of search_companies to a POST of data; the store
\* answers the search with at most size hits (10 with debug, else 1)
CallSearchCompanies ==
    /\ call = Nothing
    /\ \E data \in {Nothing} \cup [name : SeqsUpTo({S_sp, S_x, S_spx}, MaxCriteria),
                                  address : SeqsUpTo({S_y}, MaxCriteria),
                                  debug : BOOLEAN],
          connects \in BOOLEAN,
          search \in {Raised("ConnectionError")} \cup
                     {Returned([hits |-> [hits |-> hits]]) :
                         hits \in SeqsUpTo({[_score |-> 2, _source |-> [domain |-> S_d]],
                                            [_score |-> 1, _source |-> [domain |-> S_e]]},
                                           MaxCriteria)} :
          /\ (data # Nothing /\ search.raised = "none") =>
                 Len(search.value.hits.hits) <= (IF data.debug THEN 10 ELSE 1)
          /\ call' = [fn |-> "search_companies",
                      arg |-> [data |-> data, connects |-> connects, search |-> search],
                      out |-> search_companies(data, connects, search)]
    /\ UNCHANGED otherThanCall

\* the caller drops the result
CallReturn ==
    /\ call # Nothing
    /\ call' = Nothing
    /\ UNCHANGED otherThanCall

CallNext ==
    \/ CallMakeUniqueList
    \/ CallRoundTrip
    \/ CallFromCsvRow
    \/ CallFromJsonRecord
    \/ CallBuildSearchQuery
    \/ CallSearchCompanies
    \/ CallReturn

SpecCall == CallInit /\ [][CallNext]_vars

Calls(fn) == call # Nothing /\ call.fn = fn

\* the positions of a list whose entry is not None, not blank, and trims to
\* a value that no earlier entry trims to
FirstOccurrences(items) ==
    {k \in 1..Len(items) :
        /\ items[k] # None /\ strip(items[k]) # <<>>
        /\ \A j \in 1..(k - 1) : items[j] = None \/ strip(items[j]) # strip(items[k])}

\* C12: _make_unique_list returns the trimmed values of the entries that are
\* not None and not blank, in order of first occurrence and without later
\* duplicates; its output has no duplicate and no empty entry, and applying
\* it to its own output returns that output
C12_UniqueList ==
    Calls("_make_unique_list") =>
        LET K == FirstOccurrences(call.arg)
        IN /\ Len(call.out) = Cardinality(K)
           /\ \A i \in 1..Len(call.out) :
                 \E k \in K : /\ Cardinality({j \in K : j < k}) = i - 1
                              /\ call.out[i] = strip(call.arg[k])
           /\ \A i, j \in 1..Len(call.out) : i # j => call.out[i] # call.out[j]
           /\ \A i \in 1..Len(call.out) :
                 call.out[i] # None /\ strip(call.out[i]) # <<>>
           /\ make_unique_list(call.out) = call.out

\* a list with a None, a blank and two entries that trim to the same value
C12_Witness ==
    /\ Calls("_make_unique_list")
    /\ call.arg = <<S_spx, None, S_sp, S_x>>
    /\ call.out = <<S_x>>

\* C13: the document of a Record always has the key domain, and has the
\* key of a field if and only if that field of the Record is not empty, so
\* no key of the document holds an empty collection
C13_DocOmitsEmpty ==
    Calls("round_trip") =>
        /\ "domain" \in DOMAIN call.doc
        /\ call.doc["domain"] = call.arg.domain
        /\ DOMAIN call.doc \subseteq {"domain"} \cup FieldNames
        /\ \A f \in FieldNames : f \in DOMAIN call.doc <=> call.arg[f] # <<>>
        /\ \A k \in DOMAIN call.doc : call.doc[k] # <<>>

\* the document of a Record with phones and names but no urls or addresses
C13_Witness ==
    /\ Calls("round_trip")
    /\ call.arg.phones # <<>> /\ call.arg.company_names # <<>>
    /\ call.arg.urls = <<>> /\ call.arg.addresses = <<>>
    /\ "phones" \in DOMAIN call.doc
    /\ "urls" \notin DOMAIN call.doc

\* C14: the Record rebuilt from r.to_elasticsearch_doc() under r.domain is
\* equal to r in domain and in all six fields; a field whose key the
\* document lacks is read back as the empty list
C14_RoundTrip ==
    Calls("round_trip") =>
        /\ call.out.domain = call.arg.domain
        /\ \A f \in FieldNames : call.out[f] = call.arg[f]
        /\ \A f \in FieldNames : f \notin DOMAIN call.doc => call.out[f] = <<>>

\* a Record with two names, phones and urls, and three empty fields
C14_Witness ==
    /\ Calls("round_trip")
    /\ call.arg.company_names = <<S_y, S_x>>
    /\ call.arg.phones = <<S_x>> /\ call.arg.urls = <<S_x>>
    /\ call.arg.social_media = <<>> /\ call.arg.addresses = <<>>
    /\ call.arg.page_types = <<>>
    /\ DOMAIN call.doc = {"domain", "company_names", "phones", "urls"}
    /\ call.out = call.arg

\* C16: from_csv_row and from_json_record raise their missing-domain
\* ValueError and return no Record whenever the input has no domain key or
\* an empty (or None) value under it
C16_MissingDomainRaises ==
    /\ (Calls("from_csv_row") /\ ~HasDomain(call.arg)) =>
          call.out = Raised(MissingDomainCsv)
    /\ (Calls("from_json_record") /\ ~HasDomain(call.arg)) =>
          call.out = Raised(MissingDomainJson)

\* a scraped record with other fields and an empty domain was refused
C16_Witness ==
    /\ Calls("from_json_record")
    /\ "domain" \in DOMAIN call.arg /\ call.arg["domain"] = S_empty
    /\ "phone" \in DOMAIN call.arg
    /\ call.out.raised = MissingDomainJson

\* the names a CSV row carries, in the order from_csv_row reads them
RowName(row, key) == IF Truthy(Get(row, key)) THEN <<row[key]>> ELSE <<>>
RowSegments(row) ==
    IF Truthy(Get(row, "company_all_available_names"))
    THEN LET parts == split(row["company_all_available_names"], "|")
         IN [k \in 1..Len(parts) |-> strip(parts[k])]
    ELSE <<>>

\* C17: the company_names of the Record of a CSV row are unique applied to
\* the commercial name, then the legal name, then the trimmed segments of
\* company_all_available_names split on "|"; the row of the example gives
\* exactly its four names
C17_CsvNames ==
    (Calls("from_csv_row") /\ call.out.raised = "none") =>
        /\ call.out.value.company_names =
               make_unique_list(RowName(call.arg, "company_commercial_name")
                                    \o RowName(call.arg, "company_legal_name")
                                    \o RowSegments(call.arg))
        /\ call.arg = ExampleRow =>
               call.out.value.company_names =
                   <<Example.Corp, Example.Corporation_Inc, Example.Inc, Example.Company>>

\* the row of the example was read
C17_Witness ==
    /\ Calls("from_csv_row")
    /\ call.arg = ExampleRow
    /\ Len(call.out.value.company_names) = 4

\* the boost of a clause
BoostOf(clause) ==
    LET body == IF "match" \in DOMAIN clause THEN clause.match ELSE clause.term
    IN body[CHOOSE field \in DOMAIN body : TRUE].boost

ScoreDescending == <<[_score |-> [order |-> "desc"]]>>

\* C21 as stated: every query body, the one for no criteria included,
\* carries a sort on _score in descending order
C21_AlwaysSorted ==
    Calls("build_search_query") =>
        /\ "sort" \in DOMAIN call.out.value
        /\ call.out.value.sort = ScoreDescending

\* C21, amended: the query body for at least one criterion carries a sort on
\* _score in descending order; the match-all body for no criteria has the
\* key query alone and no sort
C21_SortedWhenCriteria ==
    Calls("build_search_query") =>
        IF \A c \in DOMAIN call.arg : call.arg[c] = <<>>
        THEN DOMAIN call.out.value = {"query"}
        ELSE /\ "sort" \in DOMAIN call.out.value
             /\ call.out.value.sort = ScoreDescending

\* a query for one phone and one address
C21_Witness ==
    /\ Calls("build_search_query")
    /\ call.arg.names = <<>> /\ call.arg.urls = <<>>
    /\ Len(call.arg.phones) = 1 /\ Len(call.arg.addresses) = 1
    /\ "sort" \in DOMAIN call.out.value

\* the positions of a name where a word starts: the first character and
\* every capital letter
WordStarts(name) == {k \in 1..Len(name) : k = 1 \/ isupper(name[k])}
\* the word of a name that starts at s: up to the next start or the end
WordAt(name, s) ==
    LET later == {t \in WordStarts(name) : t > s}
        last == IF later = {} THEN Len(name)
                ELSE (CHOOSE t \in later : \A u \in later : t <= u) - 1
    IN SubSeq(name, s, last)
\* the starts of the words that have three characters or more
Retained(name) == {s \in WordStarts(name) : Len(WordAt(name, s)) >= 3}
\* the words that start at the positions of S, in order, a space between two
RECURSIVE SpacedWords(_, _)
SpacedWords(name, S) ==
    IF S = {} THEN <<>>
    ELSE LET s == CHOOSE t \in S : \A u \in S : t <= u
         IN WordAt(name, s)
                \o IF S = {s} THEN <<>> ELSE <<" ">> \o SpacedWords(name, S \ {s})

\* the medium-boost fuzzy clauses on company_names expected for a list of names
RECURSIVE WordClauses(_)
WordClauses(names) ==
    IF names = <<>> THEN <<>>
    ELSE (IF Retained(Head(names)) = {} THEN <<>>
          ELSE <<[match |-> [company_names |->
                     [query |-> SpacedWords(Head(names), Retained(Head(names))),
                      fuzziness |-> "AUTO", boost |-> MEDIUM_BOOST]]]>>)
             \o WordClauses(Tail(names))

IsWordClause(clause) ==
    /\ "match" \in DOMAIN clause
    /\ "company_names" \in DOMAIN clause.match
    /\ clause.match["company_names"].boost = MEDIUM_BOOST

ValidRequest(data) ==
    /\ data # Nothing
    /\ \E v \in Range(data.name) \cup Range(data.address) : strip(v) # <<>>

\* the entries of a list that are not blank, trimmed
NonBlank(values) ==
    LET kept == SelectSeq(values, LAMBDA v : strip(v) # <<>>)
    IN [k \in 1..Len(kept) |-> strip(kept[k])]

\* the search of a valid request was issued and returned no hit
ZeroHits ==
    /\ ValidRequest(call.arg.data)
    /\ call.arg.connects
    /\ call.arg.search.raised = "none"
    /\ call.arg.search.value.hits.hits = <<>>

\* the response to zero hits: found false, a message, the criteria echoed
NotFoundResult ==
    /\ call.out.status = 404
    /\ call.out.body = [found |-> FALSE, message |-> "No matching companies found",
                        search_criteria |->
                            [names |-> NonBlank(call.arg.data.name),
                             normalized_phones |-> <<>>, cleaned_urls |-> <<>>,
                             addresses |-> NonBlank(call.arg.data.address)]]

GenericFailure ==
    call.out = [status |-> 500, body |-> [error |-> "Internal server error"]]

\* C23 as stated: zero hits give the not-found result, and only an
\* exception of the store during the search gives the generic failure
C23_OnlySearchFails ==
    Calls("search_companies") =>
        /\ ZeroHits => NotFoundResult
        /\ GenericFailure =>
               (call.arg.connects /\ call.arg.search.raised # "none")

\* C23, amended: zero hits give the not-found result; the generic failure
\* is the response to a valid request exactly when the connection test of
\* the importer's constructor fails or the search raises
C23_NotFoundIsNoFailure ==
    Calls("search_companies") =>
        /\ ZeroHits => NotFoundResult
        /\ GenericFailure <=>
               /\ ValidRequest(call.arg.data)
               /\ ~call.arg.connects \/ call.arg.search.raised # "none"

\* a search for a padded name and an address that found nothing
C23_Witness ==
    /\ Calls("search_companies")
    /\ ZeroHits
    /\ call.arg.data.name = <<S_sp, S_spx>>
    /\ call.arg.data.address = <<S_y>>
    /\ call.out.body.search_criteria.names = <<S_x>>

----------------------------------------------------------------------------
(* The upsert protocol, one import at a time                               *)

\* the document stored under d, or Nothing
Stored(d) == IF d \in DOMAIN index THEN index[d] ELSE Nothing

\* the document of the Record rebuilt from doc merged with the candidate;
\* the candidate's own document when nothing is stored
MergedDoc(doc, record) ==
    IF doc = Nothing THEN to_elasticsearch_doc(record)
    ELSE to_elasticsearch_doc(
             merge_with(doc_to_company_record(doc, record.domain), record).value)

\* the bulk write of importer p returns with every action written, after
\* gets that returned the stored document or a true not-found
CleanWrite(p) ==
    /\ pc[p] = "bulk" /\ pc'[p] = "done"
    /\ imp_bulk'[p].failed_items = <<>>
    /\ \A k \in 1..Len(imp_gets[p]) : imp_gets[p][k] # "ConnectionError"

\* the last position of the candidates of importer p for domain d
LastFor(p, d) == CHOOSE k \in CandidatesFor(p, d) : \A j \in CandidatesFor(p, d) : j <= k

GetAnswers(p, k) == {es_get(index, imp_records[p][k].domain, fails).raised : fails \in BOOLEAN}

\* a step of importer p that issues a get: one more answer is recorded
IssuesGet(p) == imp_gets'[p] # imp_gets[p] /\ pc[p] # "idle" /\ pc'[p] # "idle"

\* a step of importer p that issues the bulk write
IssuesBulk(p) == pc[p] = "bulk" /\ pc'[p] # "bulk"

\* C27: in one import of a non-empty batch there is exactly one get per
\* candidate, issued in candidate order, every get comes before the bulk
\* write, and there is exactly one bulk write, which carries one action per
\* candidate in candidate order and whose changes are visible at once
C27_StoreCallOrder ==
    [][\A p \in SeqProcs :
          /\ IssuesGet(p) =>
                /\ pc[p] = "get" /\ index' = index
                /\ Len(imp_gets'[p]) = Len(imp_gets[p]) + 1
                /\ Len(imp_gets'[p]) <= Len(imp_records[p])
                /\ SubSeq(imp_gets'[p], 1, Len(imp_gets[p])) = imp_gets[p]
                /\ imp_gets'[p][Len(imp_gets'[p])] \in GetAnswers(p, Len(imp_gets'[p]))
                /\ Len(imp_actions'[p]) = Len(imp_gets'[p])
                /\ pc'[p] = IF Len(imp_gets'[p]) = Len(imp_records[p]) THEN "bulk" ELSE "get"
          /\ IssuesBulk(p) =>
                /\ Len(imp_gets[p]) = Len(imp_records[p])
                /\ Len(imp_actions[p]) = Len(imp_records[p])
                /\ \A k \in 1..Len(imp_records[p]) :
                      imp_actions[p][k]._id = imp_records[p][k].domain
                /\ pc'[p] \in {"done", "raised"}
                /\ \E ok \in SUBSET (1..Len(imp_actions[p])) :
                      \A d \in Domains :
                         (d \in DOMAIN index') =
                             (d \in DOMAIN index \/ \E k \in ok : imp_actions[p][k]._id = d)
          /\ (pc[p] \in {"get", "bulk"} /\ pc'[p] \in {"done", "raised"}) => IssuesBulk(p)
          /\ (pc[p] = "idle" /\ pc'[p] \notin {"idle", "get"}) => imp_records'[p] = <<>>
          /\ pc[p] \in {"done", "raised"} =>
                /\ pc'[p] \in {pc[p], "idle"}
                /\ index' = index]_vars

\* an import of two candidates of different domains ended: two gets, the
\* first answered with the stored document and the second with not-found,
\* and one bulk write of the two actions
C27_Witness ==
    /\ pc[1] = "done" /\ n_imports >= 1
    /\ imp_gets[1] = <<"none", "NotFoundError">>
    /\ imp_records[1][1].domain = S_d /\ imp_records[1][2].domain = S_e
    /\ imp_actions[1][1]._id = S_d /\ imp_actions[1][2]._id = S_e
    /\ imp_bulk[1] # Nothing /\ imp_bulk[1].success_count = 2
    /\ S_e \in DOMAIN index

\* C28: every action staged by _bulk_import_records has the candidate's
\* domain as _id and as the domain of its _source, so every stored document
\* has for domain the key it is stored under, and no two stored documents
\* have the same domain
C28_KeyIsDomain ==
    /\ \A p \in Procs : \A k \in 1..Len(imp_actions[p]) :
          /\ imp_actions[p][k]._id = imp_records[p][k].domain
          /\ imp_actions[p][k]._source["domain"] = imp_records[p][k].domain
    /\ \A d \in DOMAIN index : index[d]["domain"] = d
    /\ \A d1, d2 \in DOMAIN index : index[d1]["domain"] = index[d2]["domain"] => d1 = d2

\* after a first import, a second one staged a merged document for a stored
\* domain and its own document for a new one, and two documents are stored
C28_Witness ==
    /\ n_imports >= 1
    /\ pc[1] = "done"
    /\ imp_gets[1] = <<"none", "NotFoundError">>
    /\ imp_actions[1][1]._source # to_elasticsearch_doc(imp_records[1][1])
    /\ imp_actions[1][1]._id # imp_actions[1][2]._id
    /\ DOMAIN index = {S_d, S_e}
    /\ index[S_e] = imp_actions[1][2]._source

\* C29: under imports run one at a time, when every get of an import
\* returned the stored document or a true not-found and every write
\* succeeded, each document stored before the import is still stored after
\* it and holds, in each field, every value the field held before
C29_StoredDataGrows ==
    [][\A p \in SeqProcs :
          CleanWrite(p) =>
              \A d \in DOMAIN index :
                  /\ d \in DOMAIN index'
                  /\ index'[d]["domain"] = index[d]["domain"]
                  /\ DocContains(index'[d], index[d])]_vars

\* a CSV import after a JSON import: the document kept the phones that
\* only the JSON import had and gained the names of the CSV row
C29_Witness ==
    /\ n_imports >= 1
    /\ pc[1] = "done"
    /\ "rows" \in DOMAIN imp_file[1]
    /\ imp_gets[1] = <<"none">>
    /\ imp_bulk[1] # Nothing /\ imp_bulk[1].failed_items = <<>>
    /\ imp_records[1][1].domain = S_d
    /\ imp_records[1][1].phones = <<>>
    /\ imp_records[1][1].company_names # <<>>
    /\ DocField(index[S_d], "phones") # {}
    /\ DocField(index[S_d], "company_names") = Range(imp_records[1][1].company_names)

----------------------------------------------------------------------------
(* The same file imported a second time                                    *)

\* every get of importer p returned the stored document or a true
\* not-found, and its bulk write wrote every action
AllSucceeded(p) ==
    /\ \A k \in 1..Len(imp_gets[p]) : imp_gets[p][k] # "ConnectionError"
    /\ imp_bulk[p] # Nothing /\ imp_bulk[p].failed_items = <<>>

\* the import of the file that importer 1 has just imported, run again as
\* importer p once the first run has returned with every get answered and
\* every action written
ReImport(p) ==
    /\ pc[1] = "done" /\ pc[p] = "idle"
    /\ AllSucceeded(1)
    /\ IF "rows" \in DOMAIN imp_file[1]
       THEN BeginBulkImport(p, imp_file[1], csv_records(imp_file[1].rows))
       ELSE BeginBulkImport(p, imp_file[1],
                DictValues(aggregate_json_records_by_domain(imp_file[1].json_records).value))
    /\ UNCHANGED <<index, index_exists, n_imports, otherThanImport>>

\* importer 1 runs imports one after the other, and importer 2 repeats the
\* last of them
TwiceNext ==
    \/ ImportCsvFile(1)
    \/ ImportJsonFile(1)
    \/ GetAndStage(1)
    \/ BulkWrite(1)
    \/ (pc[2] = "idle" /\ EndImport(1))
    \/ ReImport(2)
    \/ GetAndStage(2)
    \/ BulkWrite(2)

SpecTwice == ImportInit /\ [][TwiceNext]_vars

\* C30: when a batch has gone through the upsert protocol with every get
\* and write succeeding, running the same batch through it again, with no
\* other writer, leaves every stored document equal to what it was after
\* the first run, field by field and in the same order
C30_ReimportIdempotent ==
    [][(AllSucceeded(1) /\ imp_records[2] = imp_records[1] /\ CleanWrite(2)) =>
          /\ index' = index
          /\ \A d \in DOMAIN index :
                CandidatesFor(2, d) # {} =>
                    index'[d] = imp_actions[2][LastFor(2, d)]._source]_vars

\* a JSON batch whose Record merged two raw records was imported over a
\* stored document and then imported again; the document still has its
\* two phones once each
C30_Witness ==
    /\ n_imports >= 1
    /\ pc[1] = "done" /\ pc[2] = "done"
    /\ AllSucceeded(1) /\ AllSucceeded(2)
    /\ imp_records[2] = imp_records[1]
    /\ "json_records" \in DOMAIN imp_file[2]
    /\ imp_gets[1] = <<"none">> /\ imp_gets[2] = <<"none">>
    /\ Len(imp_records[2][1].phones) = 2
    /\ index[S_d] = imp_actions[2][1]._source
    /\ index[S_d] = imp_actions[1][1]._source
    /\ Len(index[S_d]["phones"]) = 2
    /\ DocField(index[S_d], "company_names") # {}

====
